---- MODULE Spec2Model ----
(***************************************************************************)
(* Model of the acme-redirect daemon: config loading (src/src/config.rs),  *)
(* the privileged bootstrap sequence and the two HTTP handlers             *)
(* (src/src/daemon.rs).                                                    *)
(*                                                                         *)
(* Text is a sequence of one-character strings; a few fixed literals       *)
(* ("https://", "challs") are kept as single elements.  An Option<T> is a  *)
(* sequence of length at most one: None == << >>, Some(x) == <<x>>.        *)
(***************************************************************************)
EXTENDS Integers, Sequences, FiniteSets, TLC

VARIABLES
    pc,          \* position of the process in main/run
    err,         \* the step whose error was returned ("none" while no error)
    steps,       \* history: the startup steps attempted so far, in order
    args,        \* command line: Args and DaemonArgs
    config,      \* Option<Config>: the value load returned
    dir,         \* data_dir on disk: exists, mode, uid, gid
    ops,         \* history: filesystem change operations issued by setup
    cwd,         \* the process's working directory
    socket,      \* the listening socket: "none", "listening", "closed"
    privileged,  \* whether the process still holds its initial privileges
    backlog,     \* connections completed by the kernel, not yet accepted
    accepted,    \* history: connections the server accepted
    served,      \* history: requests answered
    files,       \* the files a handler can read: path -> Option<bytes>
    req,         \* the request last given to a handler
    resp,        \* the response that handler returned
    reads,       \* history: the paths that handler read
    cfgFile,     \* the main config file load was given
    cfgDir,      \* the certificate config directory load was given
    result,      \* Option<Result<Config>>: what that call of load returned
    wanted,      \* the name set filter_certs was given
    selected,    \* the certificates filter_certs yielded
    setupCalls,  \* history: one record per call of setup
    slots        \* concurrent requests: one record per in-flight request

lifecycle == <<pc, err, steps, args, config, dir, ops, cwd, socket, privileged>>
conns == <<backlog, accepted, served>>
http == <<files, req, resp, reads>>
loader == <<cfgFile, cfgDir, result, wanted, selected>>
vars == <<pc, err, steps, args, config, dir, ops, cwd, socket, privileged,
          backlog, accepted, served, files, req, resp, reads,
          cfgFile, cfgDir, result, wanted, selected, setupCalls, slots>>

None == << >>
Some(x) == <<x>>

\* ------------------------------------------------------------ bounds
MaxEntries == 2     \* entries in the certificate config directory
MaxConns == 2       \* client connections over one run
MaxHostLen == 2     \* bytes of a Host header value
MaxPathLen == 1     \* characters of a request path after its leading slash
MaxTokenLen == 3    \* characters of a challenge token in a request

\* ------------------------------------------------------------ results
Ok(v) == [ok |-> TRUE, value |-> Some(v), error |-> "none"]
Err(e) == [ok |-> FALSE, value |-> None, error |-> e]

\* ------------------------------------------------------------ config.rs
DEFAULT_RENEW_IF_DAYS_LEFT == 30

unwrap_or(opt, default) == IF opt = None THEN default ELSE opt[1]

\* A main config file as the TOML parser sees it: every key may be missing.
AcmeTable(email, url, days) ==
    [acme_email |-> email, acme_url |-> url, renew_if_days_left |-> days]
SystemTable(group, exec, exec_extra) ==
    [group |-> group, exec |-> exec, exec_extra |-> exec_extra]

\* #[serde(default)] on a section and on the Vec fields; Option fields stay None.
AcmeConfig(doc) ==
    unwrap_or(doc.acme, AcmeTable(None, None, None))
SystemConfig(doc) ==
    LET t == unwrap_or(doc.system, SystemTable(None, None, None))
    IN  [group |-> t.group,
         exec |-> unwrap_or(t.exec, << >>),
         exec_extra |-> unwrap_or(t.exec_extra, << >>)]
ConfigFile(doc) == [acme |-> AcmeConfig(doc), system |-> SystemConfig(doc)]

\* A per-certificate file: name and dns_names are required keys.
CertTable(name, dns_names, must_staple, exec) ==
    [name |-> name, dns_names |-> dns_names, must_staple |-> must_staple, exec |-> exec]
CertConfig(t) ==
    [name |-> t.name[1],
     dns_names |-> t.dns_names[1],
     must_staple |-> unwrap_or(t.must_staple, FALSE),
     exec |-> unwrap_or(t.exec, << >>)]
CertConfigFile(doc) == [cert |-> CertConfig(doc.cert[1])]

\* toml::from_str into ConfigFile: fails only on a syntax error.
load_str_main(s) ==
    IF s.syntax THEN Ok(ConfigFile(s.doc)) ELSE Err("Failed to load config")

\* toml::from_str into CertConfigFile: the cert section and its required keys
\* must be there.
load_str_cert(s) ==
    IF s.syntax /\ s.doc.cert # None
       /\ s.doc.cert[1].name # None /\ s.doc.cert[1].dns_names # None
    THEN Ok(CertConfigFile(s.doc))
    ELSE Err("Failed to load config")

load_file_main(file) ==
    IF file.readable THEN load_str_main(file) ELSE Err("Failed to read file")
load_file_cert(file) ==
    IF file.readable THEN load_str_cert(file) ELSE Err("Failed to read file")

RECURSIVE load_entries(_, _)
load_entries(iter, configs) ==
    IF iter = << >> THEN Ok(configs)
    ELSE LET file == Head(iter)
         IN  IF ~file.ok THEN Err("read_dir entry")
             ELSE IF file.ext = "conf"
                  THEN LET c == load_file_cert(file)
                       IN  IF c.ok
                           THEN load_entries(Tail(iter), Append(configs, c.value[1]))
                           ELSE Err("Failed to load config file")
                  ELSE load_entries(Tail(iter), configs)

\* Mutant of load_from_folder: a file that fails to load is skipped.
RECURSIVE load_entries_skipBad(_, _)
load_entries_skipBad(iter, configs) ==
    IF iter = << >> THEN Ok(configs)
    ELSE LET file == Head(iter)
             c == load_file_cert(file)
         IN  IF file.ok /\ file.ext = "conf" /\ c.ok
             THEN load_entries_skipBad(Tail(iter), Append(configs, c.value[1]))
             ELSE load_entries_skipBad(Tail(iter), configs)
load_from_folder_skipBad(folder) ==
    IF folder.readable THEN load_entries_skipBad(folder.entries, << >>)
    ELSE Err("Failed to list directory")

load_from_folder(folder) ==
    IF folder.readable THEN load_entries(folder.entries, << >>)
    ELSE Err("Failed to list directory")

certs_of(files_) == [i \in 1..Len(files_) |-> files_[i].cert]

\* The Config load builds from the parsed file, the certificates and the
\* values taken for acme_email and renew_if_days_left.
LoadedConfig(a, file, certs, email, days) ==
    [certs |-> certs,
     acme_email |-> email,
     acme_url |-> a.acme_url,
     renew_if_days_left |-> days,
     data_dir |-> a.data_dir,
     chall_dir |-> a.chall_dir,
     group |-> file.system.group,
     exec |-> file.system.exec,
     exec_extra |-> file.system.exec_extra]

\* Mutant of load: acme_email is the file's value, the override is not used.
load_emailFromFile(a, mainFile, folder) ==
    LET loaded == load_file_main(mainFile)
        folderCerts == load_from_folder(folder)
    IN  IF ~loaded.ok THEN Err("Failed to load config file")
        ELSE IF ~folderCerts.ok THEN Err(folderCerts.error)
        ELSE Ok(LoadedConfig(a, loaded.value[1], certs_of(folderCerts.value[1]),
                             loaded.value[1].acme.acme_email,
                             unwrap_or(loaded.value[1].acme.renew_if_days_left,
                                       DEFAULT_RENEW_IF_DAYS_LEFT)))

\* Mutant of load: renew_if_days_left is always the default.
load_renewDefaultOnly(a, mainFile, folder) ==
    LET loaded == load_file_main(mainFile)
        folderCerts == load_from_folder(folder)
    IN  IF ~loaded.ok THEN Err("Failed to load config file")
        ELSE IF ~folderCerts.ok THEN Err(folderCerts.error)
        ELSE Ok(LoadedConfig(a, loaded.value[1], certs_of(folderCerts.value[1]),
                             a.acme_email, DEFAULT_RENEW_IF_DAYS_LEFT))

load(a, mainFile, folder) ==
    LET loaded == load_file_main(mainFile)
    IN  IF ~loaded.ok THEN Err("Failed to load config file")
        ELSE LET file == loaded.value[1]
                 \* lines 112-114: the override is written into the local copy
                 merged == IF a.acme_email # None
                           THEN [file EXCEPT !.acme.acme_email = a.acme_email]
                           ELSE file
                 folderCerts == load_from_folder(folder)
             IN  IF ~folderCerts.ok THEN Err(folderCerts.error)
                 ELSE Ok([certs |-> certs_of(folderCerts.value[1]),
                          acme_email |-> a.acme_email,
                          acme_url |-> a.acme_url,
                          renew_if_days_left |->
                              unwrap_or(merged.acme.renew_if_days_left,
                                        DEFAULT_RENEW_IF_DAYS_LEFT),
                          data_dir |-> a.data_dir,
                          chall_dir |-> a.chall_dir,
                          group |-> merged.system.group,
                          exec |-> merged.system.exec,
                          exec_extra |-> merged.system.exec_extra])

\* Mutant of filter_certs: the empty set is not treated as "all".
Config_filter_certs_membersOnly(c, filter) ==
    SelectSeq(c.certs, LAMBDA cert : cert.name \in filter)

Config_filter_certs(c, filter) ==
    SelectSeq(c.certs, LAMBDA cert : filter = {} \/ cert.name \in filter)

\* ---- the files load is run on
MainDoc(acme, system) == [acme |-> acme, system |-> system]
MainDocs ==
    { MainDoc(None, None),
      MainDoc(Some(AcmeTable(Some("file@example.com"), Some("https://file.ca"), Some(7))),
              Some(SystemTable(Some("certs"), Some(<<"reload">>), None))),
      MainDoc(Some(AcmeTable(Some("file@example.com"), None, None)),
              Some(SystemTable(Some("nogroup"), None, None))) }
MainFiles ==
    { [readable |-> r, syntax |-> s, doc |-> d] :
        r \in BOOLEAN, s \in BOOLEAN, d \in MainDocs }

CertDoc(cert) == [cert |-> cert]
CertDocs ==
    { CertDoc(Some(CertTable(Some("a.example"), Some(<<"a.example">>), None, None))),
      CertDoc(Some(CertTable(Some("b.example"), Some(<<"b.example", "www.b.example">>),
                             Some(TRUE), Some(<<"hook">>)))),
      CertDoc(Some(CertTable(None, Some(<<"c.example">>), None, None))) }
DirEntries ==
    { [ok |-> TRUE, ext |-> "conf", readable |-> TRUE, syntax |-> TRUE, doc |-> d] :
        d \in CertDocs }
    \cup
    { [ok |-> TRUE, ext |-> "conf", readable |-> TRUE, syntax |-> FALSE,
       doc |-> CertDoc(None)],
      [ok |-> TRUE, ext |-> "txt", readable |-> TRUE, syntax |-> FALSE,
       doc |-> CertDoc(None)],
      [ok |-> FALSE, ext |-> "conf", readable |-> TRUE, syntax |-> TRUE,
       doc |-> CertDoc(None)] }

RECURSIVE SeqsUpTo(_, _)
SeqsUpTo(S, n) ==
    IF n = 0 THEN { << >> }
    ELSE LET shorter == SeqsUpTo(S, n - 1)
         IN  shorter \cup { Append(s, x) : s \in shorter, x \in S }

Folders ==
    { [readable |-> TRUE, entries |-> e] : e \in SeqsUpTo(DirEntries, MaxEntries) }
    \cup { [readable |-> FALSE, entries |-> << >>] }

\* ------------------------------------------------------------ daemon.rs: setup
MODE_0750 == 488

RECURSIVE BitAnd(_, _)
BitAnd(a, b) ==
    IF a = 0 \/ b = 0 THEN 0
    ELSE (a % 2) * (b % 2) + 2 * BitAnd(a \div 2, b \div 2)

\* The system's user and group databases.
get_user_by_name(name) == IF name = "www" THEN Some([uid |-> 33]) ELSE None
get_group_by_name(name) == IF name = "certs" THEN Some([gid |-> 44]) ELSE None

NoDir == [exists |-> FALSE, mode |-> 0, uid |-> 0, gid |-> 0]
Dirs ==
    { NoDir } \cup
    { [exists |-> TRUE, mode |-> m, uid |-> u, gid |-> g] :
        m \in {488, 493, 448}, u \in {0, 33}, g \in {0, 44} }
Umasks == {0, 18, 63}
SetupFaults == {"none", "mkdir", "stat", "chmod", "chown", "chgrp"}

\* The result of a step of setup: the directory and the operations issued so
\* far; an error is its message followed by the value it is formatted with.
Step(ok, error, d, o) == [ok |-> ok, error |-> error, dir |-> d, ops |-> o]

\* nix::unistd::mkdir(path, mode): the new directory gets mode & ~umask and
\* the ids of the (privileged) process.
mkdir(d, mode, umask, fault, o) ==
    IF fault = "mkdir"
    THEN Step(FALSE, <<"Failed to create data directory">>, d, Append(o, "mkdir"))
    ELSE Step(TRUE, << >>,
              [exists |-> TRUE, mode |-> mode - BitAnd(mode, umask),
               uid |-> 0, gid |-> 0],
              Append(o, "mkdir"))

\* utils::ensure_chmod / ensure_chown / ensure_chgrp: compare the metadata read
\* earlier with the wanted value and issue the change only if they differ.
ensure_chmod(d, md, mode, fault, o) ==
    IF md.mode = mode THEN Step(TRUE, << >>, d, o)
    ELSE IF fault = "chmod"
         THEN Step(FALSE, <<"Failed to set permissions of data directory">>, d,
                   Append(o, "chmod"))
         ELSE Step(TRUE, << >>, [d EXCEPT !.mode = mode], Append(o, "chmod"))
ensure_chown(d, md, user, fault, o) ==
    IF md.uid = user.uid THEN Step(TRUE, << >>, d, o)
    ELSE IF fault = "chown"
         THEN Step(FALSE, <<"chown">>, d, Append(o, "chown"))
         ELSE Step(TRUE, << >>, [d EXCEPT !.uid = user.uid], Append(o, "chown"))
ensure_chgrp(d, md, group, fault, o) ==
    IF md.gid = group.gid THEN Step(TRUE, << >>, d, o)
    ELSE IF fault = "chgrp"
         THEN Step(FALSE, <<"chgrp">>, d, Append(o, "chgrp"))
         ELSE Step(TRUE, << >>, [d EXCEPT !.gid = group.gid], Append(o, "chgrp"))

\* lines 110-120 of setup, after the mode was enforced: ownership by the
\* user and the group, with the metadata md read before.
\* Mutant part: an unresolved user or group is skipped instead of reported.
owners_unresolvedSkipped(cfg, a, md, moded, fault) ==
    LET user == IF a.user = None THEN None ELSE get_user_by_name(a.user[1])
        owned == IF user = None THEN moded
                 ELSE ensure_chown(moded.dir, md, user[1], fault, moded.ops)
        group == IF cfg.group = None THEN None ELSE get_group_by_name(cfg.group[1])
    IN  IF ~owned.ok THEN owned
        ELSE IF group = None THEN owned
        ELSE ensure_chgrp(owned.dir, md, group[1], fault, owned.ops)

\* Mutant of setup: an unresolved user or group is skipped.
setup_unresolvedSkipped(cfg, a, d, umask, fault) ==
    LET made == IF ~d.exists THEN mkdir(d, MODE_0750, umask, fault, << >>)
                ELSE Step(TRUE, << >>, d, << >>)
    IN  IF ~made.ok THEN made
        ELSE IF fault = "stat"
        THEN Step(FALSE, <<"Failed to stat data directory">>, made.dir, made.ops)
        ELSE LET moded == ensure_chmod(made.dir, made.dir, MODE_0750, fault, made.ops)
             IN  IF ~moded.ok THEN moded
                 ELSE owners_unresolvedSkipped(cfg, a, made.dir, moded, fault)

\* The ownership steps as setup has them (used by the mutants below).
owners(cfg, a, md, moded, fault) ==
    LET owned ==
            IF a.user = None THEN moded
            ELSE LET user == get_user_by_name(a.user[1])
                 IN  IF user = None
                     THEN Step(FALSE, <<"Failed to resolve user", a.user[1]>>,
                               moded.dir, moded.ops)
                     ELSE ensure_chown(moded.dir, md, user[1], fault, moded.ops)
    IN  IF ~owned.ok THEN owned
        ELSE IF cfg.group = None THEN owned
        ELSE LET group == get_group_by_name(cfg.group[1])
             IN  IF group = None
                 THEN Step(FALSE, <<"Failed to resolve group", cfg.group[1]>>,
                           owned.dir, owned.ops)
                 ELSE ensure_chgrp(owned.dir, md, group[1], fault, owned.ops)

\* Mutant of setup: the mode is left to mkdir, ensure_chmod is not called.
setup_modeFromMkdir(cfg, a, d, umask, fault) ==
    LET made == IF ~d.exists THEN mkdir(d, MODE_0750, umask, fault, << >>)
                ELSE Step(TRUE, << >>, d, << >>)
    IN  IF ~made.ok THEN made
        ELSE IF fault = "stat"
        THEN Step(FALSE, <<"Failed to stat data directory">>, made.dir, made.ops)
        ELSE owners(cfg, a, made.dir, made, fault)

\* Mutant of setup: chmod is issued on every call, whatever the current mode.
setup_chmodAlways(cfg, a, d, umask, fault) ==
    LET made == IF ~d.exists THEN mkdir(d, MODE_0750, umask, fault, << >>)
                ELSE Step(TRUE, << >>, d, << >>)
    IN  IF ~made.ok THEN made
        ELSE IF fault = "stat"
        THEN Step(FALSE, <<"Failed to stat data directory">>, made.dir, made.ops)
        ELSE IF fault = "chmod"
        THEN Step(FALSE, <<"Failed to set permissions of data directory">>,
                  made.dir, Append(made.ops, "chmod"))
        ELSE owners(cfg, a, made.dir,
                    Step(TRUE, << >>, [made.dir EXCEPT !.mode = MODE_0750],
                         Append(made.ops, "chmod")),
                    fault)

setup(cfg, a, d, umask, fault) ==
    LET made == IF ~d.exists THEN mkdir(d, MODE_0750, umask, fault, << >>)
                ELSE Step(TRUE, << >>, d, << >>)
    IN  IF ~made.ok THEN made
        ELSE IF fault = "stat"
        THEN Step(FALSE, <<"Failed to stat data directory">>, made.dir, made.ops)
        ELSE
        LET md == made.dir
            moded == ensure_chmod(made.dir, md, MODE_0750, fault, made.ops)
        IN  IF ~moded.ok THEN moded
            ELSE
            LET owned ==
                    IF a.user = None THEN moded
                    ELSE LET user == get_user_by_name(a.user[1])
                         IN  IF user = None
                             THEN Step(FALSE, <<"Failed to resolve user", a.user[1]>>,
                                       moded.dir, moded.ops)
                             ELSE ensure_chown(moded.dir, md, user[1], fault, moded.ops)
            IN  IF ~owned.ok THEN owned
                ELSE IF cfg.group = None THEN owned
                ELSE LET group == get_group_by_name(cfg.group[1])
                     IN  IF group = None
                         THEN Step(FALSE, <<"Failed to resolve group", cfg.group[1]>>,
                                   owned.dir, owned.ops)
                         ELSE ensure_chgrp(owned.dir, md, group[1], fault, owned.ops)

\* What one call of setup was given and what it did.
SetupCall(cfg, a, d, r) ==
    [user |-> a.user, group |-> cfg.group, before |-> d, after |-> r.dir,
     ops |-> r.ops, ok |-> r.ok, error |-> r.error]

\* ------------------------------------------------------------ main and run
ArgsSet ==
    { [config |-> "/etc/acme-redirect.conf",
       config_dir |-> "/etc/acme-redirect.d",
       acme_email |-> e,
       acme_url |-> "https://acme.example/directory",
       data_dir |-> "/var/lib/acme-redirect",
       chall_dir |-> "/run/acme-redirect",
       user |-> u,
       bind_addr |-> "[::]:80"] :
        e \in {None, Some("cli@example.com")},
        u \in {None, Some("www"), Some("ghost")} }

\* An error return unwinds main: the process exits and its socket is closed.
Abort(step) ==
    /\ pc' = "Failed"
    /\ err' = step
    /\ socket' = IF socket = "listening" THEN "closed" ELSE socket
    /\ backlog' = 0

\* config::load, called before run, which takes the Config by value.
LoadConfig ==
    /\ pc = "Unconfigured"
    /\ steps' = Append(steps, "load")
    /\ \E mainFile \in MainFiles, folder \in Folders :
         LET r == load(args, mainFile, folder)
         IN  IF r.ok
             THEN /\ config' = r.value
                  /\ pc' = "ConfigLoaded"
                  /\ UNCHANGED <<err, socket, backlog>>
             ELSE /\ Abort("load")
                  /\ UNCHANGED config
    /\ UNCHANGED <<args, dir, ops, cwd, privileged, accepted, served, http, loader, setupCalls, slots>>

\* Mutant of RunSetup: the error of setup is recorded but not returned.
RunSetup_errorIgnored ==
    /\ pc = "ConfigLoaded"
    /\ steps' = Append(steps, "setup")
    /\ \E umask \in Umasks, fault \in SetupFaults :
         LET r == setup(config[1], args, dir, umask, fault)
         IN  /\ dir' = r.dir
             /\ ops' = ops \o r.ops
             /\ err' = IF r.ok THEN err ELSE "setup"
    /\ pc' = "DirectorySetup"
    /\ UNCHANGED <<args, config, cwd, socket, privileged, conns, http, loader, setupCalls, slots>>

\* line 126
RunSetup ==
    /\ pc = "ConfigLoaded"
    /\ steps' = Append(steps, "setup")
    /\ \E umask \in Umasks, fault \in SetupFaults :
         LET r == setup(config[1], args, dir, umask, fault)
         IN  /\ dir' = r.dir
             /\ ops' = ops \o r.ops
             /\ setupCalls' = Append(setupCalls, SetupCall(config[1], args, dir, r))
             /\ IF r.ok
                THEN /\ pc' = "DirectorySetup"
                     /\ UNCHANGED <<err, socket, backlog>>
                ELSE Abort("setup")
    /\ UNCHANGED <<args, config, cwd, privileged, accepted, served, http, loader, slots>>

\* Mutant of ChangeDir: the working directory is changed before setup runs.
ChangeDir_beforeSetup ==
    /\ pc = "ConfigLoaded"
    /\ steps' = Append(steps, "chdir")
    /\ cwd' = config[1].chall_dir
    /\ pc' = "WorkingDirectoryChanged"
    /\ UNCHANGED <<err, args, config, dir, ops, socket, privileged, conns, http, loader, setupCalls, slots>>

\* line 128
ChangeDir ==
    /\ pc = "DirectorySetup"
    /\ steps' = Append(steps, "chdir")
    /\ \E ok \in BOOLEAN :
         IF ok
         THEN /\ cwd' = config[1].chall_dir
              /\ pc' = "WorkingDirectoryChanged"
              /\ UNCHANGED <<err, socket, backlog>>
         ELSE /\ Abort("chdir")
              /\ UNCHANGED cwd
    /\ UNCHANGED <<args, config, dir, ops, privileged, accepted, served, http, loader, setupCalls, slots>>

\* Mutant of Bind: run goes from the bound socket straight to spawn.
Bind_thenSpawn ==
    /\ pc = "WorkingDirectoryChanged"
    /\ steps' = Append(steps, "bind")
    /\ socket' = "listening"
    /\ pc' = "PrivilegeDropped"
    /\ UNCHANGED <<err, args, config, dir, ops, cwd, privileged, conns, http, loader, setupCalls, slots>>

\* line 129: TcpListener::bind binds and listens; from here on the kernel
\* completes handshakes and queues the connections.
Bind ==
    /\ pc = "WorkingDirectoryChanged"
    /\ steps' = Append(steps, "bind")
    /\ \E ok \in BOOLEAN :
         IF ok
         THEN /\ socket' = "listening"
              /\ pc' = "SocketBound"
              /\ UNCHANGED <<err, backlog>>
         ELSE Abort("bind")
    /\ UNCHANGED <<args, config, dir, ops, cwd, privileged, accepted, served, http, loader, setupCalls, slots>>

\* sandbox::init: all or nothing.
sandbox_init(priv, ok) ==
    IF ok THEN [ok |-> TRUE, privileged |-> FALSE]
    ELSE [ok |-> FALSE, privileged |-> priv]

\* Mutant of DropPrivileges: a failed drop is recorded and run goes on.
DropPrivileges_errorIgnored ==
    /\ pc = "SocketBound"
    /\ steps' = Append(steps, "sandbox")
    /\ \E ok \in BOOLEAN :
         LET r == sandbox_init(privileged, ok)
         IN  /\ privileged' = r.privileged
             /\ err' = IF r.ok THEN err ELSE "sandbox"
    /\ pc' = "PrivilegeDropped"
    /\ UNCHANGED <<args, config, dir, ops, cwd, socket, conns, http, loader, setupCalls, slots>>

\* line 130
DropPrivileges ==
    /\ pc = "SocketBound"
    /\ steps' = Append(steps, "sandbox")
    /\ \E ok \in BOOLEAN :
         LET r == sandbox_init(privileged, ok)
         IN  /\ privileged' = r.privileged
             /\ IF r.ok
                THEN /\ pc' = "PrivilegeDropped"
                     /\ UNCHANGED <<err, socket, backlog>>
                ELSE Abort("sandbox")
    /\ UNCHANGED <<args, config, dir, ops, cwd, accepted, served, http, loader, setupCalls, slots>>

\* Mutant of Spawn: the server is started on the bound socket before the
\* privilege drop.
Spawn_beforeDrop ==
    /\ pc \in {"SocketBound", "PrivilegeDropped"}
    /\ steps' = Append(steps, "spawn")
    /\ pc' = "Serving"
    /\ UNCHANGED <<err, args, config, dir, ops, cwd, socket, privileged, conns, http, loader, setupCalls, slots>>

\* line 131 and spawn: HttpServer::new(..).listen(socket)?.run()
Spawn ==
    /\ pc = "PrivilegeDropped"
    /\ steps' = Append(steps, "spawn")
    /\ \E ok \in BOOLEAN :
         IF ok
         THEN /\ pc' = "Serving"
              /\ UNCHANGED <<err, socket, backlog>>
         ELSE Abort("listen")
    /\ UNCHANGED <<args, config, dir, ops, cwd, privileged, accepted, served, http, loader, setupCalls, slots>>

\* spawn, lines 91-94: the server future resolves when the server stops, on
\* a termination signal (Ok) or on a server error.
ServerStop ==
    /\ pc = "Serving"
    /\ \E signal \in BOOLEAN :
         IF signal
         THEN /\ pc' = "Exited"
              /\ socket' = "closed"
              /\ backlog' = 0
              /\ UNCHANGED err
         ELSE Abort("serve")
    /\ UNCHANGED <<steps, args, config, dir, ops, cwd, privileged, accepted, served, http, loader, setupCalls, slots>>

\* A client connects: the kernel answers for a listening socket.
Connect ==
    /\ socket = "listening"
    /\ backlog + accepted < MaxConns
    /\ backlog' = backlog + 1
    /\ UNCHANGED <<lifecycle, accepted, served, http, loader, setupCalls, slots>>

\* The running server accepts a queued connection and reads its request.
Accept ==
    /\ pc = "Serving"
    /\ backlog > 0
    /\ backlog' = backlog - 1
    /\ accepted' = accepted + 1
    /\ UNCHANGED <<lifecycle, served, http, loader, setupCalls, slots>>

\* A handler returns and the response is written.
Respond ==
    /\ pc = "Serving"
    /\ served < accepted
    /\ served' = served + 1
    /\ UNCHANGED <<lifecycle, backlog, accepted, http, loader, setupCalls, slots>>

\* No call of load or filter_certs is being looked at.
LoaderIdle ==
    /\ cfgFile = None
    /\ cfgDir = None
    /\ result = None
    /\ wanted = {}
    /\ selected = << >>

Init ==
    /\ pc = "Unconfigured"
    /\ err = "none"
    /\ steps = << >>
    /\ args \in ArgsSet
    /\ config = None
    /\ dir \in Dirs
    /\ ops = << >>
    /\ cwd = "/"
    /\ socket = "none"
    /\ privileged = TRUE
    /\ backlog = 0
    /\ accepted = 0
    /\ served = 0
    /\ files = << >>
    /\ req = << >>
    /\ resp = << >>
    /\ reads = << >>
    /\ LoaderIdle
    /\ setupCalls = << >>
    /\ slots = << >>

Next ==
    \/ LoadConfig
    \/ RunSetup
    \/ ChangeDir
    \/ Bind
    \/ DropPrivileges
    \/ Spawn
    \/ ServerStop
    \/ Connect
    \/ Accept
    \/ Respond

Spec == Init /\ [][Next]_vars

\* ------------------------------------------------------------ daemon.rs: handlers
\* Header bytes and URI characters.  "h" and "TAB" stand for the bytes
\* HeaderValue::to_str accepts (visible ASCII and tab); "CR", "LF" and "x80"
\* for bytes it rejects.  The handlers are modelled on every value of their
\* input, without relying on what the HTTP parser in front of them rejected.
HostBytes == {"h", "TAB", "CR", "LF", "x80"}
VisibleAscii == {"h", "TAB"}
PathChars == {"a", "CR", "LF"}

Contains(text, chars) == \E i \in 1..Len(text) : text[i] \in chars

\* HeaderValue::to_str
to_str(value) ==
    IF \A i \in 1..Len(value) : value[i] \in VisibleAscii
    THEN Ok(value) ELSE Err("ToStrError")

\* A request: the Host header (None when the header is missing) and the URI.
Uri(scheme, authority, path, query) ==
    [scheme |-> scheme, authority |-> authority, path |-> path, query |-> query]
Request(host, uri) == [host |-> host, uri |-> uri]

Uris ==
    { Uri(None, None, <<"/">> \o p, q) :
        p \in SeqsUpTo(PathChars, MaxPathLen), q \in {None, Some(<<"q">>)} }
    \cup
    { Uri(Some(<<"http">>), Some(<<"o">>), <<"/">> \o p, q) :
        p \in SeqsUpTo(PathChars, MaxPathLen), q \in {None, Some(<<"q">>)} }
Requests ==
    { Request(h, u) :
        h \in {None} \cup { Some(v) : v \in SeqsUpTo(HostBytes, MaxHostLen) },
        u \in Uris }

\* Display for Uri: scheme and authority when the request target carries
\* them, then the path, then the query.
uri_display(u) ==
    (IF u.scheme = None THEN << >> ELSE u.scheme[1] \o <<"://">>)
    \o (IF u.authority = None THEN << >> ELSE u.authority[1])
    \o u.path
    \o (IF u.query = None THEN << >> ELSE <<"?">> \o u.query[1])

path_and_query(u) ==
    u.path \o (IF u.query = None THEN << >> ELSE <<"?">> \o u.query[1])

Response(status, location, body) ==
    [status |-> status, location |-> location, body |-> body]

\* Mutant of get_host: the header's bytes are taken without the text check.
get_host_unchecked(r) ==
    IF r.host # None THEN Some(r.host[1]) ELSE None

get_host(r) ==
    IF r.host # None
    THEN LET host == to_str(r.host[1])
         IN  IF host.ok THEN Some(host.value[1]) ELSE None
    ELSE None

bad_request == Response(400, None, "BAD_REQUEST")
not_found == Response(404, None, "NOT_FOUND")

\* Mutant of redirect: only the host is searched for CR and LF, before the
\* target is put together.
redirect_hostCheckedOnly(r) ==
    LET host == get_host(r)
    IN  IF host = None THEN bad_request
        ELSE IF Contains(host[1], {"LF", "CR"}) THEN bad_request
        ELSE Response(301, Some(<<"https://">> \o host[1] \o uri_display(r.uri)),
                      "REDIRECT")

redirect(r) ==
    LET host == get_host(r)
    IN  IF host = None THEN bad_request
        ELSE LET url == <<"https://">> \o host[1] \o uri_display(r.uri)
             IN  IF Contains(url, {"LF", "CR"}) THEN bad_request
                 ELSE Response(301, Some(url), "REDIRECT")

\* chall::valid_token: a bounded, non-empty string over the allow-listed
\* characters ("a" and "_" stand for them; "." and "/" are outside).
TokenChars == {"a", "_", ".", "/"}
TokenAllowed == {"a", "_"}
TokenLengthLimit == 2
valid_token(t) ==
    /\ Len(t) > 0
    /\ Len(t) <= TokenLengthLimit
    /\ \A i \in 1..Len(t) : t[i] \in TokenAllowed

Tokens == SeqsUpTo(TokenChars, MaxTokenLen)

\* Path::join: an absolute argument replaces the base.
path_join(base, p) ==
    IF Len(p) > 0 /\ p[1] = "/" THEN p ELSE base \o <<"/">> \o p

\* The files a read can find: two challenge proofs under challs and one file
\* outside it.
FsPaths ==
    { path_join(<<"challs">>, <<"a">>),
      path_join(<<"challs">>, <<"_", "a">>),
      <<"/", "a">> }
FileSystems == [FsPaths -> {None, Some("proof")}]

\* fs::read: the bytes, or an error for a missing or unreadable file.
fs_read(fs, path, io_ok) ==
    IF io_ok /\ path \in DOMAIN fs /\ fs[path] # None
    THEN Ok(fs[path][1]) ELSE Err("io")

\* The handler's result: the response and the reads it made.
Handled(response, read) == [resp |-> response, reads |-> read]

\* Mutant of acme: the proof is read before the token is validated.
acme_readFirst(token, fs, io_ok) ==
    LET path == path_join(<<"challs">>, token)
        proof == fs_read(fs, path, io_ok)
    IN  IF ~valid_token(token) THEN Handled(bad_request, <<path>>)
        ELSE IF proof.ok
             THEN Handled(Response(200, None, proof.value[1]), <<path>>)
             ELSE Handled(not_found, <<path>>)

\* Mutant of acme: a read error other than a missing file is passed on as a
\* server error.
acme_errorPassedOn(token, fs, io_ok) ==
    IF ~valid_token(token) THEN Handled(bad_request, << >>)
    ELSE LET path == path_join(<<"challs">>, token)
             proof == fs_read(fs, path, io_ok)
         IN  IF proof.ok
             THEN Handled(Response(200, None, proof.value[1]), <<path>>)
             ELSE IF ~io_ok
                  THEN Handled(Response(500, None, "INTERNAL_SERVER_ERROR"), <<path>>)
                  ELSE Handled(not_found, <<path>>)

acme(token, fs, io_ok) ==
    IF ~valid_token(token) THEN Handled(bad_request, << >>)
    ELSE LET path == path_join(<<"challs">>, token)
             proof == fs_read(fs, path, io_ok)
         IN  IF proof.ok
             THEN Handled(Response(200, None, proof.value[1]), <<path>>)
             ELSE Handled(not_found, <<path>>)

\* The daemon while it serves: the state the handlers run in.
ServingArgs ==
    CHOOSE a \in ArgsSet : a.user = Some("www") /\ a.acme_email = None
ServingConfig ==
    load(ServingArgs,
         [readable |-> TRUE, syntax |-> TRUE, doc |-> MainDoc(None, None)],
         [readable |-> TRUE, entries |-> << >>]).value
InitServing ==
    /\ pc = "Serving"
    /\ err = "none"
    /\ steps = <<"load", "setup", "chdir", "bind", "sandbox", "spawn">>
    /\ args = ServingArgs
    /\ config = ServingConfig
    /\ dir = [exists |-> TRUE, mode |-> MODE_0750, uid |-> 33, gid |-> 0]
    /\ ops = <<"mkdir", "chown">>
    /\ setupCalls =
         << [user |-> Some("www"), group |-> None, before |-> NoDir,
             after |-> [exists |-> TRUE, mode |-> MODE_0750, uid |-> 33, gid |-> 0],
             ops |-> <<"mkdir", "chown">>, ok |-> TRUE, error |-> << >>] >>
    /\ cwd = "/run/acme-redirect"
    /\ socket = "listening"
    /\ privileged = FALSE
    /\ backlog = 0
    /\ accepted = 1
    /\ served = 0
    /\ LoaderIdle
    /\ slots = << >>

InitReq ==
    /\ InitServing
    /\ files \in FileSystems
    /\ req = << >>
    /\ resp = << >>
    /\ reads = << >>

RedirectRequest ==
    /\ pc = "Serving"
    /\ req = None
    /\ \E r \in Requests :
         /\ req' = Some([handler |-> "redirect", host |-> r.host, uri |-> r.uri,
                         token |-> << >>, io_ok |-> TRUE])
         /\ resp' = Some(redirect(r))
         /\ reads' = << >>
    /\ UNCHANGED <<loader, setupCalls, slots, lifecycle, conns, files>>

AcmeRequest ==
    /\ pc = "Serving"
    /\ req = None
    /\ \E token \in Tokens, io_ok \in BOOLEAN :
         LET h == acme(token, files, io_ok)
         IN  /\ req' = Some([handler |-> "acme", host |-> None,
                             uri |-> Uri(None, None,
                                         <<"/.well-known/acme-challenge/">> \o token,
                                         None),
                             token |-> token, io_ok |-> io_ok])
             /\ resp' = Some(h.resp)
             /\ reads' = h.reads
    /\ UNCHANGED <<loader, setupCalls, slots, lifecycle, conns, files>>

\* The response is written; the connection waits for its next request.
NextRequest ==
    /\ req # None
    /\ req' = None
    /\ resp' = None
    /\ reads' = << >>
    /\ UNCHANGED <<loader, setupCalls, slots, lifecycle, conns, files>>

\* The certificate client writes or removes a challenge proof.  A handler is
\* one step, so a change falls before or after it, never inside it.
FsChange ==
    /\ req = None
    /\ \E path \in FsPaths, content \in {None, Some("proof")} :
         /\ files[path] # content
         /\ files' = [files EXCEPT ![path] = content]
    /\ UNCHANGED <<loader, setupCalls, slots, lifecycle, conns, req, resp, reads>>

NextReq ==
    \/ RedirectRequest
    \/ AcmeRequest
    \/ NextRequest
    \/ FsChange

SpecReq == InitReq /\ [][NextReq]_vars

\* ------------------------------------------------------------ properties
Count(seq, x) == Cardinality({ i \in 1..Len(seq) : seq[i] = x })
Attempted(step) == \E i \in 1..Len(steps) : steps[i] = step
\* step a was attempted, and immediately before step b, whenever b was attempted
DirectlyBefore(a, b) ==
    \A j \in 1..Len(steps) : steps[j] = b => j > 1 /\ steps[j - 1] = a

\* C1: the privilege drop is performed at most once in any run and exactly
\* once in a run that gets past it, directly after the socket was bound and
\* directly before the server is started; no request is accepted or being
\* handled while the process is still privileged.
C1_DropOnceBetweenBindAndServe ==
    /\ Count(steps, "sandbox") <= 1
    /\ pc \in {"PrivilegeDropped", "Serving", "Exited"} => Count(steps, "sandbox") = 1
    /\ DirectlyBefore("bind", "sandbox")
    /\ DirectlyBefore("sandbox", "spawn")
    /\ Attempted("sandbox") => socket # "none"
    /\ Attempted("spawn") => ~privileged
    /\ accepted > 0 => ~privileged
C1_Witness ==
    /\ pc = "Serving" /\ accepted > served /\ ~privileged
    /\ Count(steps, "sandbox") = 1

\* C2: when the privilege drop fails, run returns the error: the process is
\* in Failed, the server was never started, and no connection was ever
\* accepted and no request answered.
C2_FailClosed ==
    err = "sandbox" =>
        /\ pc = "Failed"
        /\ ~Attempted("spawn")
        /\ accepted = 0 /\ served = 0
        /\ socket = "closed"
C2_Witness == err = "sandbox" /\ privileged /\ steps[Len(steps)] = "sandbox"

\* C3: the lifecycle moves only along the forward order of its states, or
\* from a state to process termination; the working directory changes only
\* after directory setup, the socket is bound only after the working
\* directory changed, and the data directory is touched by setup alone.
Forward ==
    { <<"Unconfigured", "ConfigLoaded">>,
      <<"ConfigLoaded", "DirectorySetup">>,
      <<"DirectorySetup", "WorkingDirectoryChanged">>,
      <<"WorkingDirectoryChanged", "SocketBound">>,
      <<"SocketBound", "PrivilegeDropped">>,
      <<"PrivilegeDropped", "Serving">> }
Terminating ==
    { <<p, "Failed">> :
        p \in {"Unconfigured", "ConfigLoaded", "DirectorySetup",
               "WorkingDirectoryChanged", "SocketBound", "PrivilegeDropped",
               "Serving"} }
    \cup { <<"Serving", "Exited">> }
C3_ForwardOnly ==
    [][ /\ pc' # pc => <<pc, pc'>> \in Forward \cup Terminating
        /\ dir' # dir => pc = "ConfigLoaded"
        /\ cwd' # cwd => pc = "DirectorySetup" /\ pc' = "WorkingDirectoryChanged"
        /\ socket' = "listening" /\ socket # "listening" =>
               pc = "WorkingDirectoryChanged" /\ pc' = "SocketBound"
        /\ privileged' # privileged => pc = "SocketBound" /\ pc' = "PrivilegeDropped"
        /\ accepted' # accepted => pc = "Serving" /\ pc' = "Serving" ]_vars
C3_Witness ==
    /\ pc = "Exited"
    /\ steps = <<"load", "setup", "chdir", "bind", "sandbox", "spawn">>

\* C4: a failed startup step ends the run: the failing step is the last step
\* ever attempted, no step is attempted twice, and nothing a later step
\* would do has happened.
StepOf(e) == IF e \in {"listen", "serve"} THEN "spawn" ELSE e
C4_FailureIsFatal ==
    /\ \A i, j \in 1..Len(steps) : steps[i] = steps[j] => i = j
    /\ err # "none" =>
           /\ pc = "Failed"
           /\ steps[Len(steps)] = StepOf(err)
    /\ ops # << >> => Attempted("setup")
    /\ cwd # "/" => Attempted("chdir")
    /\ socket # "none" => Attempted("bind")
    /\ ~privileged => Attempted("sandbox")
    /\ accepted > 0 => Attempted("spawn")
    /\ err = "setup" =>
           cwd = "/" /\ socket = "none" /\ privileged /\ accepted = 0
C4_Witness ==
    /\ err = "setup" /\ pc = "Failed"
    /\ steps = <<"load", "setup">>
    /\ ops # << >>

Answered(handler) == req # None /\ req[1].handler = handler
HostIsText(h) == h # None /\ \A i \in 1..Len(h[1]) : h[1][i] \in VisibleAscii
CRLF == {"CR", "LF"}

\* C6: a redirect request whose "https://" + Host value + request URI holds a
\* CR or LF, in the Host value or in the URI, is answered 400; no 301 carries
\* a Location with a CR or LF in it.
C6_NoHeaderInjection ==
    Answered("redirect") =>
        /\ ( /\ req[1].host # None
             /\ Contains(<<"https://">> \o req[1].host[1] \o uri_display(req[1].uri), CRLF) )
           => resp[1].status = 400 /\ resp[1].location = None
        /\ resp[1].status = 301 =>
               resp[1].location # None /\ ~Contains(resp[1].location[1], CRLF)
C6_Witness ==
    /\ Answered("redirect")
    /\ HostIsText(req[1].host)
    /\ Contains(req[1].uri.path, CRLF)
    /\ resp[1].status = 400

\* C7: a redirect request without a Host header, or with one that is not
\* valid text, is answered 400 with the fixed bad-request body and without a
\* Location, whatever its path.
C7_HostRequired ==
    Answered("redirect") /\ ~HostIsText(req[1].host) =>
        resp[1] = Response(400, None, "BAD_REQUEST")
C7_Witness ==
    /\ Answered("redirect")
    /\ req[1].host # None /\ Contains(req[1].host[1], {"x80"})
    /\ ~Contains(req[1].host[1], CRLF)
    /\ req[1].uri.path # <<"/">>
    /\ resp[1].status = 400

\* C8: a redirect request with a valid Host and no CR or LF in the target is
\* answered 301 with the fixed body and Location "https://" + Host + the
\* request's path and query, for every form of request target.
C8_LocationIsHostPathQuery ==
    ( /\ Answered("redirect")
      /\ HostIsText(req[1].host)
      /\ ~Contains(path_and_query(req[1].uri), CRLF) )
    => resp[1] = Response(301,
                          Some(<<"https://">> \o req[1].host[1]
                               \o path_and_query(req[1].uri)),
                          "REDIRECT")

\* C9: a challenge request whose token is not valid is answered 400 and
\* reads no file.
C9_InvalidTokenNoRead ==
    Answered("acme") /\ ~valid_token(req[1].token) =>
        resp[1].status = 400 /\ reads = << >>
C9_Witness ==
    /\ Answered("acme")
    /\ req[1].token = <<"/", "a">>
    /\ files[<<"/", "a">>] # None
    /\ req[1].io_ok
    /\ resp[1] = Response(400, None, "BAD_REQUEST")
    /\ reads = << >>

\* C10: a challenge request with a valid token reads exactly one file,
\* challs/<token>; it is answered 200 with the file's bytes when the read
\* succeeds and 404 with the fixed body when it fails; the handler answers
\* 200, 400 or 404 and nothing else.
ProofPath(token) == <<"challs", "/">> \o token
ReadSucceeds(path) == req[1].io_ok /\ path \in DOMAIN files /\ files[path] # None
C10_ValidTokenOneRead ==
    Answered("acme") =>
        /\ resp[1].status \in {200, 400, 404}
        /\ valid_token(req[1].token) =>
               /\ reads = << ProofPath(req[1].token) >>
               /\ IF ReadSucceeds(ProofPath(req[1].token))
                  THEN resp[1] = Response(200, None, files[ProofPath(req[1].token)][1])
                  ELSE resp[1] = Response(404, None, "NOT_FOUND")
C10_Witness ==
    /\ Answered("acme")
    /\ req[1].token = <<"_", "a">>
    /\ reads = << <<"challs", "/", "_", "a">> >>
    /\ resp[1] = Response(200, None, "proof")

\* ------------------------------------------------------------ load and filter_certs
\* load is given a main file and a directory; filter_certs is then called on
\* the Config it returned.
LoadArgs == { a \in ArgsSet : a.user = None }
FilterNames == {"a.example", "b.example", "z.example"}

InitLoad ==
    /\ pc = "Unconfigured"
    /\ err = "none"
    /\ steps = << >>
    /\ args \in LoadArgs
    /\ config = None
    /\ dir = NoDir
    /\ ops = << >>
    /\ cwd = "/"
    /\ socket = "none"
    /\ privileged = TRUE
    /\ backlog = 0
    /\ accepted = 0
    /\ served = 0
    /\ files = << >>
    /\ req = << >>
    /\ resp = << >>
    /\ reads = << >>
    /\ cfgFile \in { Some(f) : f \in MainFiles }
    /\ cfgDir \in { Some(d) : d \in Folders }
    /\ result = None
    /\ wanted = {}
    /\ selected = None
    /\ setupCalls = << >>
    /\ slots = << >>

LoadCall ==
    /\ result = None
    /\ result' = Some(load(args, cfgFile[1], cfgDir[1]))
    /\ UNCHANGED <<lifecycle, conns, http, cfgFile, cfgDir, wanted, selected,
                   setupCalls, slots>>

FilterCall ==
    /\ result # None
    /\ result[1].ok
    /\ selected = None
    /\ \E names \in SUBSET FilterNames :
         /\ wanted' = names
         /\ selected' = Some(Config_filter_certs(result[1].value[1], names))
    /\ UNCHANGED <<lifecycle, conns, http, cfgFile, cfgDir, result, setupCalls, slots>>

NextLoad ==
    \/ LoadCall
    \/ FilterCall

SpecLoad == InitLoad /\ [][NextLoad]_vars

Loaded == result # None /\ result[1].ok
LoadedCfg == result[1].value[1]

\* C11: filter_certs with the empty set yields all of Config.certs in order;
\* with a non-empty set it yields the certificates whose name is in the set,
\* each of them, in Config order; a name that matches nothing adds nothing.
Matching(certs, names) == { i \in 1..Len(certs) : certs[i].name \in names }
Kth(indices, k) ==
    CHOOSE i \in indices : Cardinality({ j \in indices : j <= i }) = k
C11_FilterCerts ==
    selected # None =>
        LET certs == LoadedCfg.certs
            hits == Matching(certs, wanted)
        IN  IF wanted = {} THEN selected[1] = certs
            ELSE /\ Len(selected[1]) = Cardinality(hits)
                 /\ \A k \in 1..Len(selected[1]) : selected[1][k] = certs[Kth(hits, k)]
C11_Witness ==
    /\ selected # None
    /\ wanted = {"b.example", "z.example"}
    /\ Len(LoadedCfg.certs) = 2
    /\ LoadedCfg.certs[1].name = "a.example"
    /\ Len(selected[1]) = 1
    /\ selected[1][1].name = "b.example"

\* C12: with an email override on the command line, the loaded Config's
\* acme_email is the override, whatever the main file holds.
C12_OverrideWins ==
    Loaded /\ args.acme_email # None => LoadedCfg.acme_email = args.acme_email
C12_Witness ==
    /\ Loaded
    /\ args.acme_email = Some("cli@example.com")
    /\ cfgFile[1].doc.acme # None
    /\ cfgFile[1].doc.acme[1].acme_email = Some("file@example.com")
    /\ LoadedCfg.acme_email = Some("cli@example.com")

\* C13: renew_if_days_left is the file's value when the file gives one and
\* 30 when it does not; a certificate file that omits must_staple and exec
\* gives must_staple = FALSE and exec empty.
ConfEntries == SelectSeq(cfgDir[1].entries, LAMBDA e : e.ext = "conf")
FileDays ==
    IF cfgFile[1].doc.acme = None THEN None
    ELSE cfgFile[1].doc.acme[1].renew_if_days_left
C13_Defaults ==
    Loaded =>
        /\ LoadedCfg.renew_if_days_left = (IF FileDays = None THEN 30 ELSE FileDays[1])
        /\ Len(LoadedCfg.certs) = Len(ConfEntries)
        /\ \A i \in 1..Len(LoadedCfg.certs) :
             LET t == ConfEntries[i].doc.cert[1]
             IN  /\ t.must_staple = None => LoadedCfg.certs[i].must_staple = FALSE
                 /\ t.must_staple # None =>
                        LoadedCfg.certs[i].must_staple = t.must_staple[1]
                 /\ t.exec = None => LoadedCfg.certs[i].exec = << >>
C13_Witness ==
    /\ Loaded
    /\ cfgFile[1].doc.acme = None
    /\ LoadedCfg.renew_if_days_left = 30
    /\ Len(LoadedCfg.certs) = 1
    /\ LoadedCfg.certs[1] =
         [name |-> "a.example", dns_names |-> <<"a.example">>,
          must_staple |-> FALSE, exec |-> << >>]

\* C18: load returns a Config exactly when the main file and every *.conf
\* entry can be read and parsed, and otherwise an error and no Config; other
\* entries are skipped; on success certs holds one certificate per *.conf
\* entry, in the directory's order.
CertFileLoads(e) ==
    /\ e.readable /\ e.syntax
    /\ e.doc.cert # None
    /\ e.doc.cert[1].name # None /\ e.doc.cert[1].dns_names # None
AllLoad ==
    /\ cfgFile[1].readable /\ cfgFile[1].syntax
    /\ cfgDir[1].readable
    /\ \A i \in 1..Len(cfgDir[1].entries) :
         /\ cfgDir[1].entries[i].ok
         /\ cfgDir[1].entries[i].ext = "conf" => CertFileLoads(cfgDir[1].entries[i])
C18_AllOrNothing ==
    result # None =>
        /\ result[1].ok <=> AllLoad
        /\ ~result[1].ok => result[1].value = None
        /\ result[1].ok =>
               /\ Len(LoadedCfg.certs) = Len(ConfEntries)
               /\ \A i \in 1..Len(ConfEntries) :
                    /\ LoadedCfg.certs[i].name = ConfEntries[i].doc.cert[1].name[1]
                    /\ LoadedCfg.certs[i].dns_names =
                           ConfEntries[i].doc.cert[1].dns_names[1]
C18_Witness ==
    /\ result # None
    /\ ~result[1].ok /\ result[1].value = None
    /\ cfgFile[1].readable /\ cfgFile[1].syntax
    /\ Len(cfgDir[1].entries) = 2
    /\ CertFileLoads(cfgDir[1].entries[1])
    /\ cfgDir[1].entries[2].ext = "conf" /\ ~cfgDir[1].entries[2].syntax

\* C19: the loaded Config's acme_email is the override when there is one and
\* the main file's acme_email otherwise.
FileEmail ==
    IF cfgFile[1].doc.acme = None THEN None ELSE cfgFile[1].doc.acme[1].acme_email
C19_EmailMerged ==
    Loaded =>
        LoadedCfg.acme_email =
            (IF args.acme_email # None THEN args.acme_email ELSE FileEmail)

\* ------------------------------------------------------------ setup, called again
\* setup is called on the same Config and arguments several times; between
\* two calls somebody else may change the directory's mode.
MaxSetupCalls == 2

SetupConfigs(a) ==
    { load(a, [readable |-> TRUE, syntax |-> TRUE, doc |-> d],
           [readable |-> TRUE, entries |-> << >>]).value : d \in MainDocs }

InitSetup ==
    /\ pc = "ConfigLoaded"
    /\ err = "none"
    /\ steps = <<"load">>
    /\ args \in { a \in ArgsSet : a.acme_email = None }
    /\ config \in SetupConfigs(args)
    /\ dir \in Dirs
    /\ ops = << >>
    /\ cwd = "/"
    /\ socket = "none"
    /\ privileged = TRUE
    /\ backlog = 0
    /\ accepted = 0
    /\ served = 0
    /\ files = << >>
    /\ req = << >>
    /\ resp = << >>
    /\ reads = << >>
    /\ LoaderIdle
    /\ setupCalls = << >>
    /\ slots = << >>

SetupAgain ==
    /\ Len(setupCalls) < MaxSetupCalls
    /\ \E umask \in Umasks, fault \in SetupFaults :
         LET r == setup(config[1], args, dir, umask, fault)
         IN  /\ dir' = r.dir
             /\ ops' = ops \o r.ops
             /\ setupCalls' = Append(setupCalls, SetupCall(config[1], args, dir, r))
    /\ UNCHANGED <<pc, err, steps, args, config, cwd, socket, privileged,
                   conns, http, loader, slots>>

OutsideChange ==
    /\ setupCalls # << >>
    /\ Len(setupCalls) < MaxSetupCalls
    /\ dir.exists
    /\ \E m \in {488, 493, 448} :
         /\ m # dir.mode
         /\ dir' = [dir EXCEPT !.mode = m]
    /\ UNCHANGED <<pc, err, steps, args, config, ops, cwd, socket, privileged,
                   conns, http, loader, setupCalls, slots>>

NextSetup ==
    \/ SetupAgain
    \/ OutsideChange

SpecSetup == InitSetup /\ [][NextSetup]_vars

Issued(call, op) == \E i \in 1..Len(call.ops) : call.ops[i] = op

\* C14: a call of setup that follows a successful call, with the same Config
\* and arguments and the directory as that call left it, issues no mkdir,
\* chmod, chown or chgrp and leaves mode and ownership as they were.
C14_SetupIdempotent ==
    \A k \in 1..(Len(setupCalls) - 1) :
        ( /\ setupCalls[k].ok
          /\ setupCalls[k + 1].before = setupCalls[k].after
          /\ setupCalls[k + 1].user = setupCalls[k].user
          /\ setupCalls[k + 1].group = setupCalls[k].group )
        => /\ setupCalls[k + 1].ops = << >>
           /\ setupCalls[k + 1].after = setupCalls[k].after
C14_Witness ==
    /\ Len(setupCalls) = 2
    /\ setupCalls[1].ok /\ setupCalls[2].ok
    /\ setupCalls[1].ops = <<"mkdir", "chmod", "chown", "chgrp">>
    /\ setupCalls[2].before = setupCalls[1].after
    /\ setupCalls[2].ops = << >>

\* C16: after a successful setup the directory exists with mode 0750, is
\* owned by the user given on the command line, if any, and has the group of
\* the Config, if any; mkdir is issued exactly when the directory did not
\* exist, so an existing directory is never created again.
C16_SetupPostcondition ==
    \A k \in 1..Len(setupCalls) :
        LET call == setupCalls[k]
        IN  /\ call.ok =>
                /\ call.after.exists
                /\ call.after.mode = 488
                /\ call.user # None =>
                       call.after.uid = get_user_by_name(call.user[1])[1].uid
                /\ call.group # None =>
                       call.after.gid = get_group_by_name(call.group[1])[1].gid
            /\ Issued(call, "mkdir") <=> ~call.before.exists
            /\ call.before.exists => call.after.exists
C16_Witness ==
    /\ pc = "DirectorySetup"
    /\ Len(setupCalls) = 1
    /\ setupCalls[1].ok
    /\ setupCalls[1].before.exists /\ setupCalls[1].before.mode = 493
    /\ setupCalls[1].user = Some("www") /\ setupCalls[1].group = Some("certs")
    /\ dir = [exists |-> TRUE, mode |-> 488, uid |-> 33, gid |-> 44]

\* C17: a user name or group name that cannot be resolved makes setup fail;
\* unless an earlier step of setup failed first, the error names that
\* identity; neither the change for it nor any later one is issued, and the
\* run ends before the socket is bound.
EarlierThanUser ==
    { <<"Failed to create data directory">>, <<"Failed to stat data directory">>,
      <<"Failed to set permissions of data directory">> }
EarlierThanGroup == EarlierThanUser \cup { <<"chown">> }
UserUnresolved(call) == call.user # None /\ get_user_by_name(call.user[1]) = None
GroupUnresolved(call) == call.group # None /\ get_group_by_name(call.group[1]) = None
C17_UnresolvedIdentity ==
    \A k \in 1..Len(setupCalls) :
        LET call == setupCalls[k]
        IN  /\ UserUnresolved(call) =>
                /\ ~call.ok
                /\ call.error \in
                       EarlierThanUser \cup { <<"Failed to resolve user", call.user[1]>> }
                /\ ~Issued(call, "chown") /\ ~Issued(call, "chgrp")
            /\ GroupUnresolved(call) /\ ~UserUnresolved(call) =>
                /\ ~call.ok
                /\ call.error \in
                       EarlierThanGroup \cup { <<"Failed to resolve group", call.group[1]>> }
                /\ ~Issued(call, "chgrp")
            /\ ~call.ok =>
                /\ pc = "Failed" /\ err = "setup"
                /\ socket = "none" /\ ~Attempted("bind")
C17_Witness ==
    /\ Len(setupCalls) = 1
    /\ setupCalls[1].user = Some("www")
    /\ setupCalls[1].group = Some("nogroup")
    /\ setupCalls[1].error = <<"Failed to resolve group", "nogroup">>
    /\ setupCalls[1].ops = <<"mkdir", "chown">>
    /\ pc = "Failed" /\ socket = "none"

\* ------------------------------------------------------------ route dispatch
\* The path of a GET request as its segments: the text is "/" and a segment,
\* repeated, so a final empty segment is a trailing slash and the single
\* empty segment is the root path.
MaxSegments == 4

RouteSegments ==
    { <<".well-known">>, <<"acme-challenge">>, << >>, <<"a">>, <<"_", "a">> }
RoutePaths == SeqsUpTo(RouteSegments, MaxSegments) \ { << >> }

RECURSIVE path_text(_)
path_text(segs) ==
    IF segs = << >> THEN << >>
    ELSE <<"/">> \o Head(segs) \o path_text(Tail(segs))

\* #[get("/.well-known/acme-challenge/{chall}")]: {chall} is one non-empty
\* segment and the pattern covers the whole path.
acme_pattern(segs) ==
    /\ Len(segs) = 3
    /\ segs[1] = <<".well-known">>
    /\ segs[2] = <<"acme-challenge">>
    /\ segs[3] # << >>

\* #[get("/{p:.*}")]: the tail pattern takes any path.
redirect_pattern(segs) == Len(segs) >= 1

\* Mutant of Services: redirect registered before acme.
Services_redirectFirst == <<"redirect", "acme">>

\* App::new().service(acme).service(redirect)
Services == <<"acme", "redirect">>

matches(service, segs) ==
    IF service = "acme" THEN acme_pattern(segs) ELSE redirect_pattern(segs)

\* The first registered service whose pattern takes the path handles it.
dispatch(segs) ==
    LET hits == { i \in 1..Len(Services) : matches(Services[i], segs) }
    IN  IF hits = {} THEN "default"
        ELSE Services[CHOOSE i \in hits : \A j \in hits : i <= j]

RouteRequest ==
    /\ pc = "Serving"
    /\ req = None
    /\ \E segs \in RoutePaths, host \in {None, Some(<<"h">>)}, io_ok \in BOOLEAN :
         LET service == dispatch(segs)
             uri == Uri(None, None, path_text(segs), None)
             token == IF service = "acme" THEN segs[Len(segs)] ELSE << >>
             h == IF service = "acme" THEN acme(token, files, io_ok)
                  ELSE IF service = "redirect"
                  THEN Handled(redirect(Request(host, uri)), << >>)
                  ELSE Handled(not_found, << >>)
         IN  /\ req' = Some([handler |-> service, host |-> host, uri |-> uri,
                             token |-> token, io_ok |-> io_ok, path |-> segs])
             /\ resp' = Some(h.resp)
             /\ reads' = h.reads
    /\ UNCHANGED <<loader, setupCalls, slots, lifecycle, conns, files>>

NextRoute ==
    \/ RouteRequest
    \/ NextRequest
    \/ FsChange

SpecRoute == InitReq /\ [][NextRoute]_vars

\* The request path reads /.well-known/acme-challenge/ and one more segment.
IsChallengePath(segs) ==
    \E t \in RouteSegments \ { << >> } :
        path_text(segs) = <<"/", ".well-known", "/", "acme-challenge", "/">> \o t

\* C20: a GET for /.well-known/acme-challenge/{token} with one final segment
\* goes to the acme handler, every other GET path goes to the redirect
\* handler, and no challenge path is answered with a 301.
C20_RouteDispatch ==
    req # None =>
        /\ IsChallengePath(req[1].path) => req[1].handler = "acme"
        /\ ~IsChallengePath(req[1].path) => req[1].handler = "redirect"
        /\ IsChallengePath(req[1].path) => resp[1].status # 301
C20_Witness ==
    /\ req # None
    /\ req[1].path = <<<<".well-known">>, <<"acme-challenge">>, <<"a">>>>
    /\ req[1].host = Some(<<"h">>)
    /\ req[1].handler = "acme"
    /\ resp[1].status = 200

\* ------------------------------------------------------------ requests in flight
\* The server's workers run handlers at the same time.  Each request in
\* flight has a slot with its own inputs; redirect is one step, acme is the
\* token check and then the read, and the certificate client may change the
\* files between any two steps.
MaxInflight == 2

ConcHosts == {None, Some(<<"h">>)}
ConcTokens == { <<"a">>, <<"_", "a">>, <<"/", "a">> }

Slot(handler, host, uri, token) ==
    [handler |-> handler, host |-> host, uri |-> uri, token |-> token,
     stage |-> "received", resp |-> None, snapshot |-> None]

Arrive ==
    /\ pc = "Serving"
    /\ Len(slots) < MaxInflight
    /\ \/ \E host \in ConcHosts :
            slots' = Append(slots,
                Slot("redirect", host, Uri(None, None, <<"/">>, None), << >>))
       \/ \E token \in ConcTokens :
            slots' = Append(slots,
                Slot("acme", None,
                     Uri(None, None, <<"/.well-known/acme-challenge/">> \o token, None),
                     token))
    /\ UNCHANGED <<loader, setupCalls, lifecycle, conns, http>>

RedirectStep ==
    /\ pc = "Serving"
    /\ \E i \in 1..Len(slots) :
         /\ slots[i].handler = "redirect"
         /\ slots[i].stage = "received"
         /\ slots' = [slots EXCEPT
                ![i].stage = "done",
                ![i].resp = Some(redirect(Request(slots[i].host, slots[i].uri)))]
    /\ UNCHANGED <<loader, setupCalls, lifecycle, conns, http>>

\* Mutant of read_token: the token is kept in one place for all requests,
\* the last arrival's token is the one read.
read_token_shared(i) == slots[Len(slots)].token

\* token: web::Path<String> is the handler's own argument.
read_token(i) == slots[i].token

\* acme up to the token check.
AcmeValidate ==
    /\ pc = "Serving"
    /\ \E i \in 1..Len(slots) :
         /\ slots[i].handler = "acme"
         /\ slots[i].stage = "received"
         /\ slots' = IF valid_token(read_token(i))
                     THEN [slots EXCEPT ![i].stage = "validated"]
                     ELSE [slots EXCEPT ![i].stage = "done",
                                        ![i].resp = Some(bad_request)]
    /\ UNCHANGED <<loader, setupCalls, lifecycle, conns, http>>

\* acme from the read on: the files as they are at this moment.
AcmeRead ==
    /\ pc = "Serving"
    /\ \E i \in 1..Len(slots) :
         /\ slots[i].handler = "acme"
         /\ slots[i].stage = "validated"
         /\ LET path == path_join(<<"challs">>, read_token(i))
                bytes == fs_read(files, path, TRUE)
            IN  slots' = [slots EXCEPT
                    ![i].stage = "done",
                    ![i].snapshot = Some(files),
                    ![i].resp = Some(IF bytes.ok
                                     THEN Response(200, None, bytes.value[1])
                                     ELSE not_found)]
    /\ UNCHANGED <<loader, setupCalls, lifecycle, conns, http>>

NextConc ==
    \/ Arrive
    \/ RedirectStep
    \/ AcmeValidate
    \/ AcmeRead
    \/ FsChange

SpecConc == InitReq /\ [][NextConc]_vars

\* What the handler answers to a slot's own inputs, for an acme request with
\* the files as they were at its own read (no file is read before that).
OwnAnswer(slot) ==
    IF slot.handler = "redirect"
    THEN redirect(Request(slot.host, slot.uri))
    ELSE acme(slot.token,
              IF slot.snapshot = None THEN [p \in FsPaths |-> None]
              ELSE slot.snapshot[1],
              TRUE).resp

AnswersAreOwn ==
    /\ pc = "Serving"
    /\ \A i \in 1..Len(slots) :
         slots[i].stage = "done" => slots[i].resp = Some(OwnAnswer(slots[i]))

AnswersStay ==
    /\ pc' = "Serving"
    /\ \A i \in 1..Len(slots) : slots[i].stage = "done" => slots'[i] = slots[i]

\* C15: under every interleaving of the requests in flight, a request's
\* response is the handler's answer to its own Host, URI and token and to the
\* file content at its own read; no step of another request, a 400 or 404
\* included, changes a response already made or takes the daemon out of
\* Serving.
C15_RequestsIndependent == [](AnswersAreOwn) /\ [][AnswersStay]_vars
C15_Witness ==
    /\ Len(slots) = 2
    /\ slots[1].token = <<"a">> /\ slots[2].token = <<"a">>
    /\ slots[1].stage = "done" /\ slots[2].stage = "done"
    /\ slots[1].resp[1].status = 404
    /\ slots[2].resp[1].status = 200
    /\ pc = "Serving"

====
